---- MODULE Spec2Model ----
(***************************************************************************)
(* One /chat request of src/main.py: the StateGraph compiled in main()     *)
(* (agent -> retrieve -> grade_documents -> generate | rewrite -> agent),  *)
(* executed by graph.astream(inputs, stream_mode="messages"), and the      *)
(* stream_generator() that turns its (output, metadata) pairs into the     *)
(* response stream.                                                        *)
(*                                                                         *)
(* The language models, the retriever tool and the prompt hub are the      *)
(* environment: what they answer (tool calls requested, streamed content,  *)
(* the grader's binary_score, a raised exception) is drawn with \E.        *)
(***************************************************************************)
EXTENDS Integers, Sequences, FiniteSets, TLC

\* ------------------------------------------------------------------ bounds

\* Most tool invocations one AGENT response may request.
MaxToolCalls == 2

\* graph.astream() is called without a config, so the graph runs under the
\* library's default recursion limit: 25 node executions per request.
RecursionLimit == 25

\* ------------------------------------------------------------------ values

END == "__end__"

Nodes == {"agent", "retrieve", "rewrite", "generate"}

\* Text is a sequence of characters; " " is the only whitespace character.
Contents == {<< >>, <<" ">>, <<" ", "a">>}

\* The content every model call streams in the controller specification.
PlainContents == {<<"a">>}

Questions == {"q1", "q2"}

\* Values the grader may put in binary_score (a free-form str field).
Scores == {"yes", "no", "Yes", ""}

NoChunk == [node |-> "none", content |-> << >>]

NoCall == [by |-> "none", question |-> "none", context |-> 0]

NotSearched == {"not searched"}

\* file is None: the /upload request has no file attached.
NoFile == << >>

VARIABLES
    question,   \* question.question of the request
    messages,   \* state["messages"] of the graph
    pc,         \* the node the graph runs next, or END
    status,     \* "running", "done" (stream exhausted) or "failed"
    err,        \* "none", "NodeError" or "GraphRecursionError"
    steps,      \* node executions completed in this request
    score,      \* binary_score of the latest grading, "none" before the first
    out,        \* what stream_generator has yielded so far
    chunk,      \* the latest (output, metadata) pair stream_generator received
    raised,     \* TRUE iff an exception left stream_generator
    call,       \* what the latest grading, rewrite or generate call was given
    index,      \* the documents in the index main() built for this request
    searched,   \* the index the retrieve node's tool searched last, NotSearched before
    cur,        \* the /chat request that is running: 1 or 2
    bg,         \* the locals of the other /chat request, NoRequest if there is none
    fs,         \* the files and directories under the working directory
    app,        \* the server process: its status and the retriever built at import
    store,      \* the documents left in the vector store by earlier requests
    resp,       \* the response to the latest /upload request
    hist,       \* the latest content uploaded under each filename, "none" if never
    nreq,       \* /upload and /chat requests received so far
    ret,        \* one query of the retriever run_preprocess builds, stage by stage
    chk         \* one call of get_chunks: the text, the sizes and the chunks

\* The locals of one /chat request.
reqVars == <<question, messages, pc, status, err, steps, score, out, chunk, raised,
             call, index, searched>>

\* What a step of a request's graph leaves alone.
extVars == <<cur, bg, fs, app, store, resp, hist, nreq, ret, chk>>

vars == <<reqVars, extVars>>

\* ------------------------------------------------------------------ text

\* The whitespace characters of the texts followed here.
Whitespace == {" ", "\n"}

RECURSIVE LStrip(_)
LStrip(s) == IF s = << >> THEN << >>
             ELSE IF Head(s) \in Whitespace THEN LStrip(Tail(s)) ELSE s

RECURSIVE RStrip(_)
RStrip(s) == IF s = << >> THEN << >>
             ELSE IF s[Len(s)] \in Whitespace THEN RStrip(SubSeq(s, 1, Len(s) - 1)) ELSE s

\* str.strip()
Strip(s) == RStrip(LStrip(s))

\* output.content and output.content.strip()
NonBlank(c) == c # << >> /\ Strip(c) # << >>

\* ------------------------------------------------------------------ state

Last(s) == s[Len(s)]

IsPrefix(s, t) == Len(s) <= Len(t) /\ SubSeq(t, 1, Len(s)) = s

\* A message record: who produced it, its type, the number of tool
\* invocations it requests, its id and its content.
Msg(by, type, calls, id, content) ==
    [by |-> by, type |-> type, tool_calls |-> calls, id |-> id, content |-> content]

\* add_messages, as replaced by the default channel behaviour: the update
\* overwrites the value.
ReplaceMessages(left, right) == right

\* add_messages: a message of the update whose id is already in the list
\* replaces that entry in place, any other message is appended.
RECURSIVE AddMessages(_, _)
AddMessages(left, right) ==
    IF right = << >> THEN left
    ELSE LET m == Head(right)
             hit == {i \in 1..Len(left) : left[i].id = m.id}
         IN  IF hit = {}
             THEN AddMessages(Append(left, m), Tail(right))
             ELSE AddMessages([left EXCEPT ![CHOOSE i \in hit : TRUE] = m], Tail(right))

\* inputs = {"messages": [("user", question.question)]}
Inputs(q) == <<Msg("input", "human", 0, 1, q)>>

\* ------------------------------------------------------------------ edges

AlwaysTools(msgs) == "tools"

\* tools_condition: "tools" iff the last message is an AI message with tool calls.
ToolsCondition(msgs) ==
    IF Last(msgs).type = "ai" /\ Last(msgs).tool_calls > 0 THEN "tools" ELSE END

\* The path map of the conditional edges leaving "agent".
AgentPathMap(r) == IF r = "tools" THEN "retrieve" ELSE END

GradeSwapped(s) == IF s = "yes" THEN "rewrite" ELSE "generate"

GradeLenient(s) == IF s \in {"yes", "Yes"} THEN "generate" ELSE "rewrite"

\* grade_documents: the decision taken on the grader's binary_score.
GradeDocuments(s) == IF s = "yes" THEN "generate" ELSE "rewrite"

LatestQuestion(msgs) ==
    LET qs == {i \in 1..Len(msgs) : msgs[i].by \in {"input", "rewrite"}}
    IN  msgs[CHOOSE i \in qs : \A j \in qs : j <= i].content

\* question = messages[0].content
QuestionOf(msgs) == msgs[1].content

FirstToolMessage(msgs) ==
    LET ts == {i \in 1..Len(msgs) : msgs[i].type = "tool"}
    IN  IF ts = {} THEN msgs[Len(msgs)].id
        ELSE msgs[CHOOSE i \in ts : \A j \in ts : i <= j].id

\* docs = messages[-1].content, named by the id of the message it is read from.
ContextOf(msgs) == msgs[Len(msgs)].id

RewriteToEnd == END

\* workflow.add_edge("rewrite", "agent")
RewriteEdge == "agent"

GenerateToAgent == "agent"

\* workflow.add_edge("generate", END)
GenerateEdge == END

\* ------------------------------------------------------------------ stream

ErrorFrame == [node |-> "error", text |-> <<"E">>, at |-> -1]

YieldAll(o, node, c, at) ==
    IF NonBlank(c) THEN Append(o, [node |-> node, text |-> c \o <<" ">>, at |-> at]) ELSE o

\* One iteration of the async for loop of stream_generator on the pair
\* (output, metadata) with output.content = c, metadata["langgraph_node"] = node.
\* `at` records the node execution the pair came from.
StreamHandle(o, node, c, at) ==
    IF NonBlank(c) /\ node = "generate"
    THEN Append(o, [node |-> node, text |-> c \o <<" ">>, at |-> at])
    ELSE IF NonBlank(c) /\ node = "agent"
    THEN Append(o, [node |-> node, text |-> c \o <<" ">>, at |-> at])
    ELSE IF NonBlank(c) /\ node = "retrieve"
    THEN o
    ELSE o

\* The exceptions a request can meet, all subclasses of Exception:
\* "NodeError" stands for whatever a call inside a node raises,
\* GraphRecursionError is the graph's own (a RecursionError).
Exceptions == {"NodeError", "GraphRecursionError"}

\* except Exception: whether the clause catches e.
ExceptClause(e) == e \in Exceptions

SwallowException(o) == o

\* The body of the except clause: yield f"Error: {str(e)}\n"
OnException(o) == Append(o, ErrorFrame)

\* ------------------------------------------------------------------ Init

NoRequest == [status |-> "none"]

\* main(): the locals of a request that has just built its graph and inputs.
RequestInit ==
    /\ question \in Questions
    /\ messages = Inputs(question)
    /\ pc = "agent"
    /\ status = "running"
    /\ err = "none"
    /\ steps = 0
    /\ score = "none"
    /\ out = << >>
    /\ chunk = NoChunk
    /\ raised = FALSE
    /\ call = NoCall
    /\ searched = NotSearched

NoQuery == [phase |-> "none"]

NoSplit == [phase |-> "none"]

\* No retriever query and no get_chunks call is being followed.
LibraryIdle ==
    /\ ret = NoQuery
    /\ chk = NoSplit

\* The server is up and nothing is uploaded.
ServerIdle ==
    /\ fs = [dirs |-> {<< >>, <<"uploads">>}, files |-> << >>]
    /\ app = [status |-> "up", start |-> {"doc"}]
    /\ store = {}
    /\ resp = [kind |-> "none", file |-> NoFile]
    /\ hist = [f \in {} |-> "none"]
    /\ nreq = [upload |-> 0, chat |-> 1]

\* One request, alone, over an index of one document.
Init ==
    /\ RequestInit
    /\ index = {"doc"}
    /\ cur = 1
    /\ bg = NoRequest
    /\ ServerIdle
    /\ LibraryIdle

CanRunUnbounded(node) == status = "running" /\ pc = node

\* A node runs when the graph is at it and the recursion limit leaves a step.
CanRun(node) == status = "running" /\ pc = node /\ steps < RecursionLimit

\* ------------------------------------------------------------------ nodes

\* agent(): the model bound to the tools answers with n tool calls and
\* streams content c; the response is added to the messages and
\* tools_condition picks the successor.
Agent(NS, CS) ==
    /\ CanRun("agent")
    /\ \E n \in NS, c \in CS :
         LET new == AddMessages(messages,
                        <<Msg("agent", "ai", n, Len(messages) + 1, "response")>>)
         IN  /\ messages' = new
             /\ pc' = AgentPathMap(ToolsCondition(new))
             /\ out' = StreamHandle(out, "agent", c, steps + 1)
             /\ chunk' = [node |-> "agent", content |-> c]
    /\ steps' = steps + 1
    /\ UNCHANGED <<question, status, err, score, raised, call, index, searched>>
    /\ UNCHANGED extVars

OneToolMessage(msgs) == <<Msg("retrieve", "tool", 0, Len(msgs) + 1, "docs")>>

\* The tool messages ToolNode returns for the tool calls of the last message.
ToolMessages(msgs) ==
    [k \in 1..Last(msgs).tool_calls |->
        Msg("retrieve", "tool", 0, Len(msgs) + k, "docs")]

GlobalToolsIndex == app.start

\* retrieve = ToolNode(tools): the tools are main()'s own, built over the
\* index of this request.
ToolNodeIndex == index

\* ToolNode(tools) followed by the conditional edge grade_documents, which
\* runs in the same step: the tool messages are added, the grader scores
\* the last message against the first and the score picks the successor.
Retrieve(CS) ==
    /\ CanRun("retrieve")
    /\ \E s \in Scores, c \in CS :
         LET new == AddMessages(messages, ToolMessages(messages))
         IN  /\ messages' = new
             /\ searched' = ToolNodeIndex
             /\ call' = [by |-> "grade", question |-> QuestionOf(new),
                         context |-> ContextOf(new)]
             /\ score' = s
             /\ pc' = GradeDocuments(s)
             /\ out' = StreamHandle(out, "retrieve", c, steps + 1)
             /\ chunk' = [node |-> "retrieve", content |-> c]
    /\ steps' = steps + 1
    /\ UNCHANGED <<question, status, err, raised, index>>
    /\ UNCHANGED extVars

\* rewrite(): the model reformulates messages[0].content.
Rewrite(CS) ==
    /\ CanRun("rewrite")
    /\ \E c \in CS :
         /\ messages' = AddMessages(messages,
                <<Msg("rewrite", "ai", 0, Len(messages) + 1, "rewritten")>>)
         /\ out' = StreamHandle(out, "rewrite", c, steps + 1)
         /\ chunk' = [node |-> "rewrite", content |-> c]
    /\ call' = [by |-> "rewrite", question |-> QuestionOf(messages), context |-> 0]
    /\ pc' = RewriteEdge
    /\ steps' = steps + 1
    /\ UNCHANGED <<question, status, err, score, raised, index, searched>>
    /\ UNCHANGED extVars

\* generate(): the rag chain answers from messages[0] and messages[-1]; the
\* returned str is coerced to a human message by add_messages.
Generate(CS) ==
    /\ CanRun("generate")
    /\ \E c \in CS :
         /\ messages' = AddMessages(messages,
                <<Msg("generate", "human", 0, Len(messages) + 1, "answer")>>)
         /\ out' = StreamHandle(out, "generate", c, steps + 1)
         /\ chunk' = [node |-> "generate", content |-> c]
    /\ call' = [by |-> "generate", question |-> QuestionOf(messages),
                context |-> ContextOf(messages)]
    /\ pc' = GenerateEdge
    /\ steps' = steps + 1
    /\ UNCHANGED <<question, status, err, score, raised, index, searched>>
    /\ UNCHANGED extVars

\* A call inside the running node raises (model, retriever, grader or prompt
\* hub), possibly after content c was streamed: the node's update is
\* dropped, the exception leaves graph.astream and stream_generator's
\* except clause handles it.
NodeFails(CS) ==
    /\ pc \in Nodes
    /\ CanRun(pc)
    /\ \E c \in CS \cup {<< >>} :
         /\ out' = IF ExceptClause("NodeError")
                   THEN OnException(StreamHandle(out, pc, c, steps + 1))
                   ELSE StreamHandle(out, pc, c, steps + 1)
         /\ chunk' = [node |-> pc, content |-> c]
    /\ raised' = ~ExceptClause("NodeError")
    /\ status' = "failed"
    /\ err' = "NodeError"
    /\ UNCHANGED <<question, messages, pc, steps, score, call, index, searched>>
    /\ UNCHANGED extVars

\* The recursion limit is reached: graph.astream raises GraphRecursionError,
\* which stream_generator's except clause handles. The limit is tested
\* before the graph looks for the next node, so a run that reaches END on
\* its last allowed step may end either way.
OutOfSteps ==
    /\ status = "running"
    /\ steps >= RecursionLimit
    /\ status' = "failed"
    /\ err' = "GraphRecursionError"
    /\ out' = IF ExceptClause("GraphRecursionError") THEN OnException(out) ELSE out
    /\ raised' = ~ExceptClause("GraphRecursionError")
    /\ UNCHANGED <<question, messages, pc, steps, score, chunk, call, index, searched>>
    /\ UNCHANGED extVars

\* The graph reached END: graph.astream is exhausted and the stream closes.
Finish ==
    /\ status = "running"
    /\ pc = END
    /\ status' = "done"
    /\ UNCHANGED <<question, messages, pc, err, steps, score, out, chunk, raised,
                   call, index, searched>>
    /\ UNCHANGED extVars

\* ------------------------------------------------------------------ specs

\* The controller: every number of tool calls, one streamed content.
Next ==
    \/ Agent(0..MaxToolCalls, PlainContents)
    \/ Retrieve(PlainContents)
    \/ Rewrite(PlainContents)
    \/ Generate(PlainContents)
    \/ NodeFails(PlainContents)
    \/ OutOfSteps
    \/ Finish

Spec == Init /\ [][Next]_vars

\* The response stream: every streamed content, at most one tool call.
StreamNext ==
    \/ Agent(0..1, Contents)
    \/ Retrieve(Contents)
    \/ Rewrite(Contents)
    \/ Generate(Contents)
    \/ NodeFails(Contents)
    \/ OutOfSteps
    \/ Finish

StreamSpec == Init /\ [][StreamNext]_vars

\* ------------------------------------------------------------------ two requests

\* The locals of the running request: inputs, graph state and stream.
Locals ==
    [question |-> question, messages |-> messages, pc |-> pc, status |-> status,
     err |-> err, steps |-> steps, score |-> score, out |-> out, chunk |-> chunk,
     raised |-> raised, call |-> call, index |-> index, searched |-> searched]

ResumeSharingMessages(rec) == [rec EXCEPT !.messages = messages]

\* What a request finds when it runs again: its own locals, as it left them.
Resume(rec) == rec

\* The server turns from the running request to the other one. Each call of
\* main() has its own inputs, workflow and graph, compiled without a
\* checkpointer, so nothing of a request lives outside its locals.
Switch ==
    /\ bg # NoRequest
    /\ \/ status = "running"
       \/ bg.status = "running"
    /\ bg' = Locals
    /\ cur' = 3 - cur
    /\ UNCHANGED <<fs, app, store, resp, hist, nreq, ret, chk>>
    /\ LET r == Resume(bg)
       IN  /\ question' = r.question
           /\ messages' = r.messages
           /\ pc' = r.pc
           /\ status' = r.status
           /\ err' = r.err
           /\ steps' = r.steps
           /\ score' = r.score
           /\ out' = r.out
           /\ chunk' = r.chunk
           /\ raised' = r.raised
           /\ call' = r.call
           /\ index' = r.index
           /\ searched' = r.searched

\* Two requests arrive together, each with its question.
ConcInit ==
    /\ RequestInit
    /\ index = {"doc"}
    /\ cur = 1
    /\ \E q \in Questions :
          bg = [question |-> q, messages |-> Inputs(q), pc |-> "agent",
                status |-> "running", err |-> "none", steps |-> 0, score |-> "none",
                out |-> << >>, chunk |-> NoChunk, raised |-> FALSE, call |-> NoCall,
                index |-> {"doc"}, searched |-> NotSearched]
    /\ ServerIdle
    /\ LibraryIdle

ConcNext ==
    \/ Agent(0..1, PlainContents)
    \/ Retrieve(PlainContents)
    \/ Rewrite(PlainContents)
    \/ Generate(PlainContents)
    \/ NodeFails(PlainContents)
    \/ OutOfSteps
    \/ Finish
    \/ Switch

ConcSpec == ConcInit /\ [][ConcNext]_vars

\* ------------------------------------------------------------------ server

\* Most /upload requests and most /chat requests in one run.
MaxUploads == 2

MaxChats == 2

\* file.filename is what the client sent, a path of one or more components.
FileNames == {<<"a.pdf">>, <<"b.txt">>, <<"..", "a.pdf">>, <<"d", "a.pdf">>}

FileContents == {"v1", "v2"}

\* The extension of a file name.
Ext == ("a.pdf" :> "pdf") @@ ("b.txt" :> "txt")

\* The path a relative path names: ".." steps out of the directory before it.
RECURSIVE Normalize(_, _)
Normalize(done, rest) ==
    IF rest = << >> THEN done
    ELSE IF Head(rest) = ".."
    THEN Normalize(IF done = << >> THEN << >> ELSE SubSeq(done, 1, Len(done) - 1),
                   Tail(rest))
    ELSE Normalize(Append(done, Head(rest)), Tail(rest))

\* f"uploads/{file.filename}"
UploadPath(name) == <<"uploads">> \o name

\* os.makedirs("uploads", exist_ok=True)
MakeDirs(f) == [f EXCEPT !.dirs = @ \cup {<<"uploads">>}]

\* Whether open(path, "wb") succeeds: the directory is there and the path
\* is not a directory itself.
CanOpen(f, path) ==
    /\ Normalize(<< >>, path) # << >>
    /\ Normalize(<< >>, SubSeq(path, 1, Len(path) - 1)) \in f.dirs
    /\ Normalize(<< >>, path) \notin f.dirs

\* out_file.write(content) on the file open(path, "wb") made or emptied.
WriteFile(f, path, content) ==
    [f EXCEPT !.files = (Normalize(<< >>, path) :> content) @@ @]

\* glob.glob("uploads/*.pdf")
Glob(f) ==
    {q \in DOMAIN f.files : Len(q) = 2 /\ q[1] = "uploads" /\ Ext[q[2]] = "pdf"}

\* The files of the uploads area.
UploadsArea(f) == {q \in DOMAIN f.files : Len(q) >= 2 /\ q[1] = "uploads"}

\* The chunks of a PDF, as documents naming the file and the content they
\* were cut from.
ChunksOf(f, q) == {<<q[2], f.files[q]>>}

\* run_preprocess(pdf_path, api_key): the retriever over the chunks of one PDF.
RunPreprocess(f, q) == ChunksOf(f, q)

\* preprocess_document_to_markdown(file): the chunks of one PDF.
PreprocessDocumentToMarkdown(f, q) == ChunksOf(f, q)

\* The chunks of every globbed file, which main() adds to the store.
AllChunks(f) == UNION {PreprocessDocumentToMarkdown(f, q) : q \in Glob(f)}

\* create_vector_store(api_key): a store that is empty, or one that still
\* holds what earlier requests added.
CreateVectorStore == {{}, store}

\* The request variables while no /chat request is being served.
NoChat ==
    /\ question = "none"
    /\ messages = << >>
    /\ pc = END
    /\ status = "none"
    /\ err = "none"
    /\ steps = 0
    /\ score = "none"
    /\ out = << >>
    /\ chunk = NoChunk
    /\ raised = FALSE
    /\ call = NoCall
    /\ index = {}
    /\ searched = NotSearched

\* The process has not imported main.py yet; uploads/ may be missing, empty
\* or hold one PDF.
ServerInit ==
    /\ NoChat
    /\ cur = 1
    /\ bg = NoRequest
    /\ fs \in {[dirs |-> {<< >>}, files |-> << >>],
               [dirs |-> {<< >>, <<"uploads">>}, files |-> << >>],
               [dirs |-> {<< >>, <<"uploads">>},
                files |-> (<<"uploads", "a.pdf">> :> "v1")]}
    /\ app = [status |-> "init", start |-> {}]
    /\ store = {}
    /\ resp = [kind |-> "none", file |-> NoFile]
    /\ hist = [f \in {} |-> "none"]
    /\ nreq = [upload |-> 0, chat |-> 0]
    /\ LibraryIdle

\* Import of main.py: pdf_files is the glob of uploads/, and the start-up
\* retriever is built from pdf_files[-1]; with no PDF the subscript raises
\* IndexError and the process ends.
StartUp ==
    /\ app.status = "init"
    /\ IF Glob(fs) = {}
       THEN app' = [status |-> "crashed", start |-> {}]
       ELSE \E q \in Glob(fs) : app' = [status |-> "up", start |-> RunPreprocess(fs, q)]
    /\ UNCHANGED <<reqVars, cur, bg, fs, store, resp, hist, nreq, ret, chk>>

AlwaysAttached(file) == TRUE

\* The test of "if not file": file is None when the request has no file.
Attached(file) == file # NoFile

\* upload_file(file). Without a file the "no file" message is returned at
\* once. With a file the directory is made and the content is written to
\* uploads/<filename>, and the filename is returned; when open() raises,
\* the request fails after the directory was made.
Upload ==
    /\ app.status = "up"
    /\ nreq.upload < MaxUploads
    /\ \E file \in {NoFile} \cup FileNames, content \in FileContents :
         IF ~Attached(file)
         THEN /\ resp' = [kind |-> "message", file |-> file,
                          message |-> "No upload file sent"]
              /\ UNCHANGED <<fs, hist>>
         ELSE LET made == MakeDirs(fs)
              IN  IF file # NoFile /\ CanOpen(made, UploadPath(file))
                  THEN /\ fs' = WriteFile(made, UploadPath(file), content)
                       /\ resp' = [kind |-> "filename", file |-> file, filename |-> file]
                       /\ hist' = (file :> content) @@ hist
                  ELSE /\ fs' = made
                       /\ resp' = [kind |-> "error", file |-> file]
                       /\ hist' = IF file = NoFile THEN hist
                                  ELSE (file :> content) @@ hist
    /\ nreq' = [nreq EXCEPT !.upload = @ + 1]
    /\ UNCHANGED <<reqVars, cur, bg, app, store, ret, chk>>

\* main(question) up to the return: the store is created, every globbed PDF
\* is chunked and added, the retriever, tools and graph are built.
ChatStart ==
    /\ app.status = "up"
    /\ status # "running"
    /\ nreq.chat < MaxChats
    /\ \E q \in Questions, base \in CreateVectorStore :
         /\ question' = q
         /\ messages' = Inputs(q)
         /\ index' = base \cup AllChunks(fs)
         /\ store' = base \cup AllChunks(fs)
    /\ pc' = "agent"
    /\ status' = "running"
    /\ err' = "none"
    /\ steps' = 0
    /\ score' = "none"
    /\ out' = << >>
    /\ chunk' = NoChunk
    /\ raised' = FALSE
    /\ call' = NoCall
    /\ searched' = NotSearched
    /\ nreq' = [nreq EXCEPT !.chat = @ + 1]
    /\ UNCHANGED <<cur, bg, fs, app, resp, hist, ret, chk>>

ServerNext ==
    \/ StartUp
    \/ Upload
    \/ ChatStart
    \/ Agent(0..1, PlainContents)
    \/ Retrieve(PlainContents)
    \/ Rewrite(PlainContents)
    \/ Generate(PlainContents)
    \/ NodeFails(PlainContents)
    \/ OutOfSteps
    \/ Finish

ServerSpec == ServerInit /\ [][ServerNext]_vars

\* ------------------------------------------------------------------ retriever

\* Most documents in the index of a followed query.
MaxDocs == 16

\* search_kwargs={"k": 10, "fetch_k": 15}
SearchK == 10

FetchK == 15

\* CrossEncoderReranker(model=model, top_n=5)
TopN == 5

Min(a, b) == IF a < b THEN a ELSE b

\* The first n elements of a sequence.
Take(seq, n) == SubSeq(seq, 1, Min(n, Len(seq)))

\* The documents of the index are 1..n, numbered by their similarity to the
\* query, nearest first. The vector search returns the fetch_k nearest.
FetchCandidates(n) == [i \in 1..Min(n, FetchK) |-> i]

\* The sequence without the `count` elements from position `from` on.
Without(seq, from, count) ==
    SubSeq(seq, 1, from - 1) \o SubSeq(seq, from + count, Len(seq))

\* Maximal marginal relevance over the candidates: k of them are kept,
\* the nearest always; which others are left out depends on how alike the
\* candidates are, here a run of neighbours starting at position `from`.
MmrSelect(cands, from) ==
    IF Len(cands) <= SearchK THEN cands
    ELSE Without(cands, from, Len(cands) - SearchK)

\* Where the left-out run may start.
MmrChoices(cands) ==
    IF Len(cands) <= SearchK THEN {2} ELSE 2..(SearchK + 1)

\* sorted(..., key=score, reverse=True): stable, the highest score first.
RECURSIVE SortByScore(_, _, _)
SortByScore(docs, sc, up) ==
    IF docs = << >> THEN << >>
    ELSE LET best == CHOOSE i \in 1..Len(docs) :
                 /\ \A j \in 1..Len(docs) :
                       IF up THEN sc[docs[i]] <= sc[docs[j]] ELSE sc[docs[i]] >= sc[docs[j]]
                 /\ \A j \in 1..(i - 1) : sc[docs[j]] # sc[docs[i]]
         IN  <<docs[best]>> \o SortByScore(Without(docs, best, 1), sc, up)

RerankAscending(docs, sc) == Take(SortByScore(docs, sc, TRUE), TopN)

\* CrossEncoderReranker.compress_documents: score every document it is
\* given, sort by score, keep the top_n.
CompressDocuments(docs, sc) == Take(SortByScore(docs, sc, FALSE), TopN)

\* The cross-encoder's scores: one document scores 2, one 1, the others 0.
CrossScores(n) ==
    {[d \in 1..n |-> IF d = b THEN 2 ELSE IF d = g THEN 1 ELSE 0] : b, g \in 1..n}

\* A query arrives at the retriever of run_preprocess over an index of n documents.
RetrieverInit ==
    /\ NoChat
    /\ cur = 1
    /\ bg = NoRequest
    /\ ServerIdle
    /\ chk = NoSplit
    /\ \E n \in 0..MaxDocs :
         ret = [phase |-> "query", n |-> n, fetched |-> << >>, selected |-> << >>,
                scored |-> {}, score |-> << >>, result |-> << >>]

\* The base retriever's vector search: fetch_k candidates.
Fetch ==
    /\ ret.phase = "query"
    /\ ret' = [ret EXCEPT !.phase = "fetched", !.fetched = FetchCandidates(ret.n)]
    /\ UNCHANGED <<reqVars, cur, bg, fs, app, store, resp, hist, nreq, chk>>

\* The base retriever's mmr step: what the retriever returns.
Mmr ==
    /\ ret.phase = "fetched"
    /\ \E from \in MmrChoices(ret.fetched) :
         ret' = [ret EXCEPT !.phase = "selected",
                            !.selected = MmrSelect(ret.fetched, from)]
    /\ UNCHANGED <<reqVars, cur, bg, fs, app, store, resp, hist, nreq, chk>>

\* ContextualCompressionRetriever: the compressor is given the documents
\* the base retriever returned, if there are any.
Rerank ==
    /\ ret.phase = "selected"
    /\ \E sc \in IF ret.n = 0 THEN {<< >>} ELSE CrossScores(ret.n) :
         ret' = [ret EXCEPT !.phase = "done",
                            !.score = sc,
                            !.scored = {ret.selected[i] : i \in 1..Len(ret.selected)},
                            !.result = IF ret.selected = << >> THEN << >>
                                       ELSE CompressDocuments(ret.selected, sc)]
    /\ UNCHANGED <<reqVars, cur, bg, fs, app, store, resp, hist, nreq, chk>>

RetrieverNext ==
    \/ Fetch
    \/ Mmr
    \/ Rerank

RetrieverSpec == RetrieverInit /\ [][RetrieverNext]_vars

\* ------------------------------------------------------------------ chunks

\* Longest text of a followed get_chunks call.
MaxText == 5

\* Longest text of each document when two documents are split.
MaxPairText == 2

\* Largest chunk_size of a followed get_chunks call.
MaxSize == 3

Alphabet == {"a", " ", "\n"}

TextsUpTo(n) == UNION {[1..k -> Alphabet] : k \in 0..n}

\* RecursiveCharacterTextSplitter's default separators: "\n\n", "\n", " ", "".
Separators == << <<"\n", "\n">>, <<"\n">>, <<" ">>, << >> >>

\* Where re.split finds the separator: left to right, not overlapping.
RECURSIVE Occurrences(_, _, _)
Occurrences(text, sep, i) ==
    IF i + Len(sep) - 1 > Len(text) THEN {}
    ELSE IF SubSeq(text, i, i + Len(sep) - 1) = sep
         THEN {i} \cup Occurrences(text, sep, i + Len(sep))
         ELSE Occurrences(text, sep, i + 1)

RECURSIVE Ascending(_)
Ascending(S) ==
    IF S = {} THEN << >>
    ELSE LET m == CHOOSE x \in S : \A y \in S : x <= y
         IN  <<m>> \o Ascending(S \ {m})

\* A piece of a document: the characters from..to of piece p, with the
\* document it is from and its offset there.
Piece(p, from, to) ==
    [doc |-> p.doc, at |-> p.at + from - 1, s |-> SubSeq(p.s, from, to)]

\* _split_text_with_regex with keep_separator=True: each separator stays at
\* the start of the piece that follows it, empty pieces are dropped; with
\* the separator "" the pieces are the characters.
SplitTextWithRegex(p, sep) ==
    IF sep = << >> THEN [i \in 1..Len(p.s) |-> Piece(p, i, i)]
    ELSE LET starts == Ascending(({1} \cup Occurrences(p.s, sep, 1)) \cap (1..Len(p.s)))
         IN  [k \in 1..Len(starts) |->
                 Piece(p, starts[k],
                       IF k < Len(starts) THEN starts[k + 1] - 1 ELSE Len(p.s))]

\* The first separator that is "" or occurs in the text.
PickSeparator(text, seps) ==
    CHOOSE i \in 1..Len(seps) :
        /\ seps[i] = << >> \/ Occurrences(text, seps[i], 1) # {}
        /\ \A j \in 1..(i - 1) : seps[j] # << >> /\ Occurrences(text, seps[j], 1) = {}

\* total: the length of the pieces of current_doc (the separator is "").
RECURSIVE Total(_)
Total(current) ==
    IF current = << >> THEN 0 ELSE Len(Head(current).s) + Total(Tail(current))

RECURSIVE Joined(_)
Joined(current) ==
    IF current = << >> THEN << >> ELSE Head(current).s \o Joined(Tail(current))

\* _join_docs: the pieces joined and stripped; nothing when that is empty.
JoinDocs(current) ==
    LET text == Joined(current)
        lead == Len(text) - Len(LStrip(text))
    IN  IF Strip(text) = << >> THEN << >>
        ELSE << [doc |-> current[1].doc, at |-> current[1].at + lead, s |-> Strip(text)] >>

KeepAll(current, len, cfg) == current

\* The while loop of _merge_splits: pieces are dropped from the front until
\* at most chunk_overlap is kept and the next piece fits.
RECURSIVE PopFront(_, _, _)
PopFront(current, len, cfg) ==
    IF \/ Total(current) > cfg.overlap
       \/ (Total(current) + len > cfg.size /\ Total(current) > 0)
    THEN PopFront(Tail(current), len, cfg)
    ELSE current

\* _merge_splits: the for loop over the splits, current_doc in `current`.
RECURSIVE MergeLoop(_, _, _)
MergeLoop(splits, current, cfg) ==
    IF splits = << >> THEN JoinDocs(current)
    ELSE LET d == Head(splits)
         IN  IF Total(current) + Len(d.s) > cfg.size
             THEN IF current # << >>
                  THEN JoinDocs(current)
                       \o MergeLoop(Tail(splits),
                                    Append(PopFront(current, Len(d.s), cfg), d), cfg)
                  ELSE MergeLoop(Tail(splits), <<d>>, cfg)
             ELSE MergeLoop(Tail(splits), Append(current, d), cfg)

MergeSplits(splits, cfg) == MergeLoop(splits, << >>, cfg)

RECURSIVE SplitText(_, _, _)
RECURSIVE SplitLoop(_, _, _, _)

\* The for loop of _split_text over the splits: pieces shorter than
\* chunk_size are collected and merged, a longer one is split with the
\* remaining separators, or kept as it is when there are none.
SplitLoop(splits, good, new, cfg) ==
    IF splits = << >>
    THEN IF good # << >> THEN MergeSplits(good, cfg) ELSE << >>
    ELSE LET p == Head(splits)
         IN  IF Len(p.s) < cfg.size
             THEN SplitLoop(Tail(splits), Append(good, p), new, cfg)
             ELSE (IF good # << >> THEN MergeSplits(good, cfg) ELSE << >>)
                  \o (IF new = << >> THEN <<p>> ELSE SplitText(p, new, cfg))
                  \o SplitLoop(Tail(splits), << >>, new, cfg)

\* RecursiveCharacterTextSplitter._split_text
SplitText(p, seps, cfg) ==
    LET i == PickSeparator(p.s, seps)
        new == IF seps[i] = << >> THEN << >> ELSE SubSeq(seps, i + 1, Len(seps))
    IN  SplitLoop(SplitTextWithRegex(p, seps[i]), << >>, new, cfg)

\* split_documents: the chunks of each document, one document after another.
RECURSIVE SplitDocuments(_, _, _)
SplitDocuments(docs, k, cfg) ==
    IF k > Len(docs) THEN << >>
    ELSE SplitText([doc |-> k, at |-> 1, s |-> docs[k]], Separators, cfg)
         \o SplitDocuments(docs, k + 1, cfg)

\* get_chunks(docs, chunk_size, chunk_overlap)
GetChunks(docs, size, overlap) ==
    SplitDocuments(docs, 1, [size |-> size, overlap |-> overlap])

\* The documents of a followed call: one text, or two short ones.
DocumentLists ==
    {<<t>> : t \in TextsUpTo(MaxText)}
        \cup {<<t, u>> : t \in TextsUpTo(MaxPairText), u \in TextsUpTo(MaxPairText)}

\* get_chunks is about to be called with overlap < size.
ChunkInit ==
    /\ NoChat
    /\ cur = 1
    /\ bg = NoRequest
    /\ ServerIdle
    /\ ret = NoQuery
    /\ \E docs \in DocumentLists, size \in 1..MaxSize :
         \E overlap \in 0..(size - 1) :
            chk = [phase |-> "input", docs |-> docs, size |-> size,
                   overlap |-> overlap, chunks |-> << >>]

SplitCall ==
    /\ chk.phase = "input"
    /\ chk' = [chk EXCEPT !.phase = "done",
                          !.chunks = GetChunks(chk.docs, chk.size, chk.overlap)]
    /\ UNCHANGED <<reqVars, cur, bg, fs, app, store, resp, hist, nreq, ret>>

ChunkNext == SplitCall

ChunkSpec == ChunkInit /\ [][ChunkNext]_vars

\* ------------------------------------------------------------------ claims

\* A node completed in this step.
NodeRan(node) == pc = node /\ steps' = steps + 1

\* messages' is messages with exactly one message appended, produced by `by`.
AppendedOne(by) ==
    /\ Len(messages') = Len(messages) + 1
    /\ SubSeq(messages', 1, Len(messages)) = messages
    /\ Last(messages').by = by

By(node) == {i \in 1..Len(messages) : messages[i].by = node}

\* C1: after every execution of AGENT the graph goes to RETRIEVE iff the
\* message AGENT just appended requests tool use, and otherwise to END; once
\* at END no node runs and the messages stay as they are.
C1_AgentRouting ==
    [][ /\ NodeRan("agent") =>
              /\ AppendedOne("agent")
              /\ pc' \in {"retrieve", END}
              /\ (pc' = "retrieve" <=> Last(messages').tool_calls > 0)
        /\ pc = END => (pc' = END /\ steps' = steps /\ messages' = messages)
      ]_vars

\* A request that retrieved once, came back to AGENT and ended on its direct reply.
C1_Witness ==
    /\ status = "done"
    /\ pc = END
    /\ Last(messages).by = "agent"
    /\ Last(messages).tool_calls = 0
    /\ By("retrieve") # {}

\* C2: the grading result alone decides the routing after RETRIEVE: graded
\* "yes" the graph goes to GENERATE and the next message appended is
\* GENERATE's, graded anything else it goes to REWRITE and the next message
\* appended is REWRITE's.
C2_GradeRouting ==
    [][ /\ NodeRan("retrieve") =>
              /\ pc' \in {"generate", "rewrite"}
              /\ (pc' = "generate" <=> score' = "yes")
        /\ (Last(messages).by = "retrieve" /\ messages' # messages) =>
              AppendedOne(IF score = "yes" THEN "generate" ELSE "rewrite")
      ]_vars

\* A request graded not relevant first and relevant later, answered by GENERATE.
C2_Witness ==
    /\ By("rewrite") # {}
    /\ Last(messages).by = "generate"
    /\ messages[Len(messages) - 1].by = "retrieve"
    /\ score = "yes"

\* Every AGENT response so far requested tool use, every grading so far was
\* not relevant, and no call failed.
AlwaysNotRelevant ==
    /\ \A i \in By("agent") : messages[i].tool_calls > 0
    /\ By("generate") = {}
    /\ pc # "generate"
    /\ err # "NodeError"

C4_RewriteToAgent ==
    [][ /\ NodeRan("rewrite") =>
              /\ AppendedOne("rewrite")
              /\ Last(messages').content = "rewritten"
              /\ pc' = "agent"
        /\ Last(messages).by = "rewrite" =>
              /\ pc = "agent"
              /\ status' # "done"
              /\ steps' = steps + 1 => Last(messages').by = "agent"
      ]_vars

\* A REWRITE whose question was taken up by AGENT.
C4_Witness ==
    \E i \in By("rewrite") : i < Len(messages) /\ messages[i + 1].by = "agent"

\* C5: every execution of GENERATE appends the answer and sends the graph to
\* END; once GENERATE's message is there no node runs any more, so GENERATE
\* runs at most once per request.
C5_GenerateTerminal ==
    [][ /\ NodeRan("generate") =>
              /\ AppendedOne("generate")
              /\ Last(messages').content = "answer"
              /\ pc' = END
        /\ By("generate") # {} =>
              /\ pc = END
              /\ steps' = steps
              /\ messages' = messages
        /\ Cardinality({i \in 1..Len(messages') : messages'[i].by = "generate"}) <= 1
      ]_vars

\* A request answered by GENERATE and closed.
C5_Witness ==
    /\ status = "done"
    /\ Last(messages).by = "generate"
    /\ By("rewrite") # {}

\* C6 as stated: every node call makes the message sequence exactly one longer.
C6_ExactlyOne ==
    [][ steps' = steps + 1 => Len(messages') = Len(messages) + 1 ]_vars

\* C6: AGENT, REWRITE and GENERATE each make the message sequence exactly one
\* longer; RETRIEVE makes it longer by one message per tool invocation the
\* AGENT message requests, which is at least one.
C6_OnePerToolCall ==
    [][ steps' = steps + 1 =>
          IF pc = "retrieve"
          THEN /\ Last(messages).tool_calls >= 1
               /\ Len(messages') = Len(messages) + Last(messages).tool_calls
               /\ \A i \in Len(messages) + 1 .. Len(messages') :
                      messages'[i].by = "retrieve"
          ELSE Len(messages') = Len(messages) + 1
      ]_vars

\* RETRIEVE answered an AGENT message that requested two tool invocations.
C6_Witness ==
    \E i \in By("agent") :
        /\ messages[i].tool_calls >= 2
        /\ i + 2 <= Len(messages)
        /\ messages[i + 1].by = "retrieve"
        /\ messages[i + 2].by = "retrieve"

\* C7: the messages are append-only: across every transition the sequence
\* before is a prefix of the sequence after, and the user's question stays
\* the first message.
C7_AppendOnly ==
    [][ /\ IsPrefix(messages, messages')
        /\ messages'[1] = Msg("input", "human", 0, 1, question)
        /\ \A i, j \in 1..Len(messages') : messages'[i].id = messages'[j].id => i = j
      ]_vars

\* A second cycle: the question is still first, after two AGENT responses.
C7_Witness ==
    /\ Cardinality(By("agent")) >= 2
    /\ By("retrieve") # {}
    /\ messages[1].content = question

\* The fragments of the stream that are not the error frame.
Fragments == {i \in 1..Len(out) : out[i].node # "error"}

FragmentsOf(o) == {i \in 1..Len(o) : o[i].node # "error"}

\* C8: every fragment on the response stream other than the final error
\* frame is non-blank content of AGENT or of GENERATE followed by a space;
\* what comes from RETRIEVE or REWRITE is never put on the stream, whether
\* the node completes or fails.
C8_OnlyAgentAndGenerate ==
    [][ /\ \A i \in FragmentsOf(out') :
              /\ out'[i].node \in {"agent", "generate"}
              /\ Len(out'[i].text) >= 2
              /\ out'[i].text[Len(out'[i].text)] = " "
              /\ Strip(out'[i].text) # << >>
        /\ \A i \in 1..Len(out') :
              out'[i].node = "error" => (i = Len(out') /\ status' = "failed")
        /\ (chunk'.node \in {"retrieve", "rewrite"} /\ chunk' # chunk) =>
              FragmentsOf(out') = FragmentsOf(out)
        /\ (chunk'.node \in {"agent", "generate"} /\ chunk' # chunk) =>
              IF chunk'.content \in {<< >>, <<" ">>}
              THEN FragmentsOf(out') = FragmentsOf(out)
              ELSE /\ FragmentsOf(out') = FragmentsOf(out) \cup {Len(out) + 1}
                   /\ out'[Len(out) + 1].node = chunk'.node
                   /\ out'[Len(out) + 1].text = chunk'.content \o <<" ">>
      ]_vars

\* RETRIEVE streamed non-blank content after AGENT's fragment went out, and
\* the stream still holds AGENT's fragment alone.
C8_Witness ==
    /\ chunk.node = "retrieve"
    /\ chunk.content = <<" ", "a">>
    /\ Len(out) = 1
    /\ out[1].node = "agent"
    /\ By("rewrite") # {}

\* C9: the stream keeps the order of the node executions: fragments lie in
\* the order of the executions they came from, and no AGENT fragment follows
\* a GENERATE fragment.
C9_StreamOrder ==
    /\ \A i, j \in Fragments :
          i < j => /\ out[i].at < out[j].at
                   /\ ~(out[i].node = "generate" /\ out[j].node = "agent")
    /\ \A i \in Fragments : out[i].at <= steps + 1
    /\ \A i \in Fragments : out[i].node = "generate" =>
          \A j \in 1..Len(out) : j > i => out[j].node = "error"

\* Two AGENT fragments and then GENERATE's on one stream.
C9_Witness ==
    /\ Len(out) = 3
    /\ out[1].node = "agent"
    /\ out[2].node = "agent"
    /\ out[3].node = "generate"
    /\ status = "done"

C11_Isolation ==
    [][ /\ cur' = cur => bg' = bg
        /\ cur' # cur => (Locals' = bg /\ bg' = Locals)
        /\ messages'[1] = Msg("input", "human", 0, 1, question')
        /\ bg'.messages[1] = Msg("input", "human", 0, 1, bg'.question)
        /\ \A i \in 1..Len(bg'.messages) : bg'.messages[i].id = i
        /\ \A i \in 1..Len(messages') : messages'[i].id = i
      ]_vars

\* Both requests were served in turns and ended differently: one answered by
\* GENERATE with its fragments, the other by AGENT's direct reply.
C11_Witness ==
    /\ bg # NoRequest
    /\ status = "done"
    /\ bg.status = "done"
    /\ Last(messages).by = "generate"
    /\ Last(bg.messages).by = "agent"
    /\ question # bg.question
    /\ Len(out) > Len(bg.out)

\* An /upload request was answered in this step.
Uploaded == nreq'.upload = nreq.upload + 1

\* C12: an upload request with no file attached is answered with the "no
\* file" message and changes nothing: no directory is made, no file is
\* written, and neither the store nor any request's index changes.
C12_NoFileNoEffect ==
    [][ (Uploaded /\ resp'.file = NoFile) =>
            /\ resp'.kind = "message"
            /\ resp'.message = "No upload file sent"
            /\ fs' = fs
            /\ store' = store
            /\ index' = index
            /\ app' = app
            /\ hist' = hist
      ]_vars

\* A request without a file, answered after a file had been stored.
C12_Witness ==
    /\ resp.kind = "message"
    /\ resp.file = NoFile
    /\ nreq.upload = 2
    /\ DOMAIN hist # {}

\* The files uploads/ holds before the server starts.
InitialFiles == {<<"uploads", "a.pdf">>}

\* C13 as stated: after any sequence of upload requests with files the
\* uploads area holds exactly one entry per distinct uploaded filename, with
\* the content of the latest upload under that name, and each such upload
\* returns the stored filename.
C13_OnePerFilename ==
    /\ \A name \in DOMAIN hist :
          /\ Normalize(<< >>, UploadPath(name)) \in UploadsArea(fs)
          /\ fs.files[Normalize(<< >>, UploadPath(name))] = hist[name]
    /\ UploadsArea(fs) \subseteq
          InitialFiles \cup {Normalize(<< >>, UploadPath(name)) : name \in DOMAIN hist}
    /\ resp.file # NoFile => (resp.kind = "filename" /\ resp.filename = resp.file)

\* C14 as stated: with no PDF in the uploads area, building the retriever
\* gives an empty index and no error, at start-up and per chat request.
C14_EmptyIsNoError ==
    /\ (Glob(fs) = {} /\ app.status # "init") => (app.status = "up" /\ app.start = {})
    /\ (Glob(fs) = {} /\ status = "running") => index = {}

Range(seq) == {seq[i] : i \in 1..Len(seq)}

\* The result has the higher cross-encoder scores first.
ScoreOrdered ==
    \A i, j \in 1..Len(ret.result) :
        i < j => ret.score[ret.result[i]] >= ret.score[ret.result[j]]

\* C15 as stated: the retriever fetches fetch_k candidates, reranks all of
\* them with the cross-encoder and returns at most k of them, most relevant
\* first: the result is drawn from the fetched candidates, no fetched
\* candidate left out of it scores higher than one in it, and k <= fetch_k.
C15_RerankAllFetched ==
    ret.phase = "done" =>
        /\ Len(ret.fetched) = Min(ret.n, FetchK)
        /\ ret.scored = Range(ret.fetched)
        /\ Range(ret.result) \subseteq Range(ret.fetched)
        /\ Len(ret.result) <= SearchK
        /\ ScoreOrdered
        /\ \A d \in Range(ret.fetched) \ Range(ret.result), r \in Range(ret.result) :
              ret.score[d] <= ret.score[r]
        /\ SearchK <= FetchK

\* C15: the retriever fetches fetch_k = 15 candidates, the diversity-aware
\* search keeps k = 10 of them, the cross-encoder reranks those 10 (not all
\* 15) and the top_n = 5 best of them are returned, most relevant first; the
\* result is drawn from the fetched candidates and top_n <= k <= fetch_k.
C15_RerankSelected ==
    ret.phase = "done" =>
        /\ Len(ret.fetched) = Min(ret.n, FetchK)
        /\ Len(ret.selected) = Min(Len(ret.fetched), SearchK)
        /\ Range(ret.selected) \subseteq Range(ret.fetched)
        /\ ret.scored = Range(ret.selected)
        /\ Len(ret.result) = Min(Len(ret.selected), TopN)
        /\ Cardinality(Range(ret.result)) = Len(ret.result)
        /\ Range(ret.result) \subseteq Range(ret.selected)
        /\ ScoreOrdered
        /\ \A d \in Range(ret.selected) \ Range(ret.result), r \in Range(ret.result) :
              ret.score[d] <= ret.score[r]
        /\ TopN <= SearchK /\ SearchK <= FetchK

\* The candidate the cross-encoder scores highest was fetched but left out
\* by the diversity-aware search, so it is not in the result.
C15_Witness ==
    /\ ret.phase = "done"
    /\ Len(ret.fetched) = FetchK
    /\ Len(ret.result) = TopN
    /\ \E d \in Range(ret.fetched) \ Range(ret.selected) : ret.score[d] = 2
    /\ ret.score[ret.result[1]] = 1

\* The grader, the rewriting model or the answering chain was called in this step.
ServiceCalled == NodeRan("retrieve") \/ NodeRan("rewrite") \/ NodeRan("generate")

\* C17: in every grading, REWRITE and GENERATE step, after any number of
\* rewrite cycles, the question passed on is the content of the first
\* message, the user's original question, never a question REWRITE appended.
C17_OriginalQuestion ==
    [][ ServiceCalled =>
            /\ call'.by = (IF pc = "retrieve" THEN "grade" ELSE pc)
            /\ messages'[1].by = "input"
            /\ call'.question = messages'[1].content
            /\ call'.question = question
            /\ \A i \in 1..Len(messages') :
                  messages'[i].by = "rewrite" =>
                      i > 1 /\ messages'[i].content # call'.question
      ]_vars

\* After two rewrite cycles the answering chain was called with the original question.
C17_Witness ==
    /\ Cardinality(By("rewrite")) >= 2
    /\ call.by = "generate"
    /\ call.question = question
    /\ Last(messages).by = "generate"

\* C19: the grading step is total and two-valued: whatever the grader's
\* binary_score is, the step after RETRIEVE is GENERATE when the score is
\* exactly "yes" and REWRITE for every other value ("no", "Yes", the empty
\* string), so RETRIEVE always has a successor that can run.
C19_TotalGrading ==
    [][ NodeRan("retrieve") =>
            /\ score' \in Scores
            /\ pc' = (IF score' = "yes" THEN "generate" ELSE "rewrite")
            /\ pc' \in Nodes
            /\ pc' # END
            /\ status' = "running"
      ]_vars

\* A score of "Yes" or "" sent the request to REWRITE, which ran.
C19_Witness ==
    /\ score \in {"Yes", ""}
    /\ Last(messages).by = "rewrite"
    /\ messages[Len(messages) - 1].by = "retrieve"
    /\ pc = "agent"

\* The last AGENT message of the conversation.
LastAgent(msgs) ==
    CHOOSE i \in 1..Len(msgs) :
        /\ msgs[i].by = "agent"
        /\ \A j \in (i + 1)..Len(msgs) : msgs[j].by # "agent"

\* C20: whenever the grading step or GENERATE runs, the last message is one
\* RETRIEVE appended in the same cycle (after the latest AGENT message), and
\* it alone is what is graded and used as the context; GENERATE and REWRITE
\* are entered only directly after RETRIEVE.
C20_ContextIsLastRetrieved ==
    [][ /\ (NodeRan("retrieve") \/ NodeRan("generate")) =>
              LET seen == IF pc = "retrieve" THEN messages' ELSE messages
              IN  /\ Last(seen).by = "retrieve"
                  /\ Last(seen).type = "tool"
                  /\ \E i \in 1..Len(seen) : seen[i].by = "agent"
                  /\ \A j \in (LastAgent(seen) + 1)..Len(seen) : seen[j].by = "retrieve"
                  /\ LastAgent(seen) < Len(seen)
                  /\ call'.context = Last(seen).id
                  /\ call'.context = Len(seen)
        /\ (pc' \in {"generate", "rewrite"} /\ pc' # pc) => NodeRan("retrieve")
        /\ pc \in {"generate", "rewrite"} => Last(messages).by = "retrieve"
      ]_vars

\* RETRIEVE appended two tool messages and GENERATE answered from the last one.
C20_Witness ==
    /\ Last(messages).by = "generate"
    /\ Len(messages) >= 4
    /\ messages[Len(messages) - 1].by = "retrieve"
    /\ messages[Len(messages) - 2].by = "retrieve"
    /\ call.by = "generate"
    /\ call.context = Len(messages) - 1

\* The positions of its document a chunk takes.
Span(c) == c.at..(c.at + Len(c.s) - 1)

\* The chunks of document d, in the order returned.
ChunksOfDoc(d) == {i \in 1..Len(chk.chunks) : chk.chunks[i].doc = d}

\* The chunks are pieces of their documents, in source order, none longer
\* than the chunk size.
OrderedAndBounded ==
    /\ \A i \in 1..Len(chk.chunks) :
          LET c == chk.chunks[i]
          IN  /\ c.doc \in 1..Len(chk.docs)
              /\ c.s # << >>
              /\ Span(c) \subseteq 1..Len(chk.docs[c.doc])
              /\ c.s = SubSeq(chk.docs[c.doc], c.at, c.at + Len(c.s) - 1)
              /\ Len(c.s) <= chk.size
    /\ \A i, j \in 1..Len(chk.chunks) :
          i < j => /\ chk.chunks[i].doc <= chk.chunks[j].doc
                   /\ chk.chunks[i].doc = chk.chunks[j].doc =>
                          chk.chunks[i].at <= chk.chunks[j].at

\* Two chunks that follow each other in the same document.
Consecutive(i) ==
    /\ i \in 1..(Len(chk.chunks) - 1)
    /\ chk.chunks[i].doc = chk.chunks[i + 1].doc

\* The number of positions two consecutive chunks share.
Shared(i) == Cardinality(Span(chk.chunks[i]) \cap Span(chk.chunks[i + 1]))

\* C16 as stated: for any text and any size and overlap with overlap < size
\* the chunks are in source order, cover the whole text with no gaps, none is
\* longer than the chunk size, and consecutive chunks of the same document
\* overlap by the specified overlap.
C16_FullCoverExactOverlap ==
    chk.phase = "done" =>
        /\ OrderedAndBounded
        /\ \A d \in 1..Len(chk.docs) :
              UNION {Span(chk.chunks[i]) : i \in ChunksOfDoc(d)} = 1..Len(chk.docs[d])
        /\ \A i \in 1..(Len(chk.chunks) - 1) :
              Consecutive(i) => Shared(i) = chk.overlap

\* C16: for any text and any size and overlap with overlap < size the chunks
\* are in source order, none is longer than the chunk size, every character
\* that is not whitespace is in some chunk (whitespace at the ends of a chunk
\* is stripped, so there are gaps), and consecutive chunks of the same
\* document overlap by at most the specified overlap.
C16_OrderedBoundedChunks ==
    chk.phase = "done" =>
        /\ OrderedAndBounded
        /\ \A d \in 1..Len(chk.docs) :
              \A x \in 1..Len(chk.docs[d]) :
                  chk.docs[d][x] \notin Whitespace =>
                      \E i \in ChunksOfDoc(d) : x \in Span(chk.chunks[i])
        /\ \A i \in 1..(Len(chk.chunks) - 1) :
              Consecutive(i) => Shared(i) <= chk.overlap

\* A text split into several chunks with a gap between two of them, and
\* another pair of chunks that overlap.
C16_Witness ==
    /\ chk.phase = "done"
    /\ chk.overlap > 0
    /\ \E i \in 1..(Len(chk.chunks) - 1) :
          Consecutive(i) /\ chk.chunks[i + 1].at > chk.chunks[i].at + Len(chk.chunks[i].s)
    /\ \E i \in 1..(Len(chk.chunks) - 1) : Consecutive(i) /\ Shared(i) > 0

====
